---- MODULE Spec2Model ----
(***************************************************************************)
(* Hulk: the bash-configuration manager.  Model of the main-process file   *)
(* handlers (src/main.js, class Application) and of the renderer's record  *)
(* store (Store).  Text is a sequence of one-character strings, so that    *)
(* the regular expressions, split and join of the source are computed      *)
(* character by character.                                                  *)
(***************************************************************************)
EXTENDS Integers, Sequences, FiniteSets, TLC

VARIABLES
  aliasFile,     \* ~/.aliases on disk: [exists, content]
  backupFile,    \* ~/.aliases.hulk-backup on disk: [exists, content]
  aliasesResp,   \* answer of the last request if it was getAliases
  prevFile,      \* history: aliasFile immediately before the last saveAliases
  lastSaved,     \* history: the record list of the last saveAliases request
  lastOp,        \* history: name of the last request handled
  cycles,        \* history: consecutive saves of a freshly loaded list
  nSaves,        \* history: number of saveAliases requests handled
  envFile,       \* ~/.env on disk: [exists, content]
  envResp,       \* answer of the last getEnv request: [status, records]
  envLine,       \* one line of an env file handed to parseEnvVar
  envVarResult,  \* outcome of parseEnvVar(envLine): [status, rec]
  data,          \* Store.data for the key "aliases": [kind, ref]
  heap,          \* the renderer's array objects, by reference
  promises,      \* the promises of getAliases requests: [state, ref]
  ipc,           \* requests sent to the main process, not yet handled
  adds,          \* Store.add calls suspended at their await
  saves,         \* Store.save calls suspended at their await
  nextId,        \* the next identifier crypto.randomUUID() gives out
  nCalls,        \* history: number of Store.add, fetch and save calls
  lastAdd,       \* history: the last Store.add that completed
  deleted,       \* history: the ids Store.delete has been called with
  storeOut,      \* history: outcome of the last Store call that returned
  bashrcFile,    \* ~/.bashrc on disk: [exists, content]
  bashrcResp,    \* answer of the last getBashRC request: [status, records]
  configExists,  \* whether ~/.config/hulk/config.json exists
  configResp,    \* answer of the last hasHulkConfig request: [status, value]
  home,          \* Application.home: the home directory of the user
  backupPath,    \* last value of Application.aliasBackupFilename: [status, path]
  aliasInput,    \* add-alias modal: value of the alias text field
  commandInput,  \* add-alias modal: value of the command text field
  groupSelect,   \* add-alias modal: value of the group select
  flows,         \* the saveAlias calls of the modal: [pc, typed, seq]
  rendered,      \* the list last handed to renderAliases
  nSubmits       \* history: number of submits of the modal

mainVars == <<aliasFile, backupFile, aliasesResp, prevFile, lastSaved, lastOp,
              cycles, nSaves>>
envVars == <<envFile, envResp>>
lineVars == <<envLine, envVarResult>>
storeVars == <<data, heap, promises, ipc, adds, saves, nextId, nCalls,
               lastAdd, deleted, storeOut>>
hostVars == <<bashrcFile, bashrcResp, configExists, configResp, home,
              backupPath>>
modalVars == <<aliasInput, commandInput, groupSelect, flows, rendered,
               nSubmits>>

----------------------------------------------------------------------------
(* Bounds *)

MaxLines == 2      \* lines of an enumerated alias file
MaxSaves == 2      \* saveAliases requests in one run
MaxEnvLines == 2   \* lines of an enumerated env file
MaxStoreCalls == 3 \* Store.add, fetch and save calls in one run
MaxSubmits == 2    \* submits of the add-alias modal in one run

----------------------------------------------------------------------------
(* Characters and character classes of the JavaScript regular expressions *)

Letters ==
  {"a","b","c","d","e","f","g","h","i","j","k","l","m","n","o","p","q","r",
   "s","t","u","v","w","x","y","z","A","B","C","D","E","F","G","H","I","J",
   "K","L","M","N","O","P","Q","R","S","T","U","V","W","X","Y","Z"}
Digits == {"0","1","2","3","4","5","6","7","8","9"}

\* \w
IsWord(c) == c \in Letters \cup Digits \cup {"_"}
\* \s
IsSpace(c) == c \in {" ", "\t", "\r", "\n", "\f"}
\* the characters "." does not match
IsLineTerminator(c) == c \in {"\n", "\r"}
\* [\w-\.]
IsAliasNameChar(c) == IsWord(c) \/ c \in {"-", "."}

Contains(s, sub) ==
  \E i \in 0..(Len(s) - Len(sub)) : SubSeq(s, i + 1, i + Len(sub)) = sub

\* String.prototype.includes
Includes(s, sub) == Contains(s, sub)

\* number of leading characters of s matched by a greedy \s{0,}
LeadingSpaces(s) ==
  CHOOSE k \in 0..Len(s) :
    /\ \A j \in 1..k : IsSpace(s[j])
    /\ (k < Len(s) => ~IsSpace(s[k + 1]))

Min(S) == CHOOSE x \in S : \A y \in S : x <= y
Max(S) == CHOOSE x \in S : \A y \in S : x >= y

kwAlias == <<"a", "l", "i", "a", "s">>
kwExport == <<"e", "x", "p", "o", "r", "t">>
ShebangUsr == <<"#", "!", "/", "u", "s", "r", "/">>
ShebangEnv == <<"#", "!", "/", "u", "s", "r", "/", "b", "i", "n", "/", "e", "n", "v">>
General == <<"G", "e", "n", "e", "r", "a", "l">>
HulkMarker ==
  <<"#", " ", "T", "h", "i", "s", " ", "f", "i", "l", "e", " ", "i", "s", " ",
    "g", "e", "n", "e", "r", "a", "t", "e", "d", " ", "b", "y", " ", "H", "u",
    "l", "k", ".", " ", "D", "i", "r", "e", "c", "t", " ", "e", "d", "i", "t",
    "s", " ", "m", "a", "y", " ", "b", "e", " ", "o", "v", "e", "r", "w", "r",
    "i", "t", "t", "e", "n">>

----------------------------------------------------------------------------
(* Application.toLines: file.toString().split(/\r?\n/) *)

NewlinesFrom(t, start) == {n \in start..Len(t) : t[n] = "\n"}

RECURSIVE SplitFrom(_, _)
SplitFrom(t, start) ==
  IF NewlinesFrom(t, start) = {}
    THEN <<SubSeq(t, start, Len(t))>>
    ELSE LET n == Min(NewlinesFrom(t, start))
             e == IF n > start /\ t[n - 1] = "\r" THEN n - 2 ELSE n - 1
         IN  <<SubSeq(t, start, e)>> \o SplitFrom(t, n + 1)

toLines(file) == SplitFrom(file, 1)

\* Array.prototype.join("\n")
RECURSIVE JoinLines(_)
JoinLines(ls) ==
  IF Len(ls) = 0 THEN <<>>
  ELSE IF Len(ls) = 1 THEN ls[1]
  ELSE ls[1] \o <<"\n">> \o JoinLines(Tail(ls))

----------------------------------------------------------------------------
(* Application.isGroup and Application.parseAlias *)

\* line.match(/alias\s([\w-\.]+)=/)
HasAliasDef(line) ==
  \E p \in 1..Len(line) : \E e \in (p + 7)..Len(line) :
    /\ SubSeq(line, p, p + 4) = kwAlias
    /\ IsSpace(line[p + 5])
    /\ line[e] = "="
    /\ \A j \in (p + 6)..(e - 1) : IsAliasNameChar(line[j])

isGroup(line) ==
  /\ line # <<>>
  /\ ~Contains(line, ShebangUsr)
  /\ ~HasAliasDef(line)

\* line.match(/^(?!#)\s{0,}?alias\s([\w-\.]+)=(.+)$/): the position of the
\* "=" that ends the name, or 0 when the line does not match
AliasEq(line) ==
  LET k == LeadingSpaces(line)
      E == {e \in (k + 8)..(Len(line) - 1) :
              /\ line[1] # "#"
              /\ SubSeq(line, k + 1, k + 5) = kwAlias
              /\ IsSpace(line[k + 6])
              /\ line[e] = "="
              /\ \A j \in (k + 7)..(e - 1) : IsAliasNameChar(line[j])
              /\ \A j \in (e + 1)..Len(line) : ~IsLineTerminator(line[j])}
  IN  IF E = {} THEN 0 ELSE Min(E)

\* line.replace(/\s{0,}#\s{0,}/, "")
StripHeading(line) ==
  LET H == {h \in 1..Len(line) : line[h] = "#"}
  IN  IF H = {} THEN line
      ELSE LET h == Min(H)
               a == Min({s \in 1..h : \A j \in s..(h - 1) : IsSpace(line[j])})
               b == Max({s \in h..Len(line) :
                           \A j \in (h + 1)..s : IsSpace(line[j])})
           IN  SubSeq(line, 1, a - 1) \o SubSeq(line, b + 1, Len(line))

\* variant: the command is stored as written, wrapping quotes included
StripQuotesKept(v) == v

\* matches[2].replace(/^\"(.+)\"/, "$1")
StripQuotes(v) ==
  LET K == {k \in 3..Len(v) :
              /\ v[1] = "\""
              /\ v[k] = "\""
              /\ \A j \in 2..(k - 1) : ~IsLineTerminator(v[j])}
  IN  IF K = {} THEN v
      ELSE LET k == Max(K)
           IN  SubSeq(v, 2, k - 1) \o SubSeq(v, k + 1, Len(v))

parseAlias(line, i) ==
  LET e == AliasEq(line)
      k == LeadingSpaces(line)
  IN  IF e # 0
        THEN LET currentGroup == IF isGroup(line) THEN StripHeading(line)
                                 ELSE General
             IN  [line |-> i, type |-> "alias",
                  alias |-> SubSeq(line, k + 7, e - 1),
                  command |-> StripQuotes(SubSeq(line, e + 1, Len(line))),
                  group |-> currentGroup]
        ELSE [line |-> i, type |-> "line", text |-> line,
              group |-> isGroup(line)]

\* variant: records are numbered from one
aliasesOneBased(content) ==
  LET ls == toLines(content)
  IN  [i \in 1..Len(ls) |-> parseAlias(ls[i], i)]

\* Application.aliases: this.toLines(this.aliasFile).map(this.parseAlias)
aliases(content) ==
  LET ls == toLines(content)
  IN  [i \in 1..Len(ls) |-> parseAlias(ls[i], i - 1)]

----------------------------------------------------------------------------
(* Application.aliasToString and Application.saveAliases *)

Has(r, f) == f \in DOMAIN r

\* variant: the command is written without the wrapping double quotes
aliasToStringBare(r) ==
  IF Has(r, "type") /\ r.type = "alias"
    THEN kwAlias \o <<" ">> \o r.alias \o <<"=">> \o r.command
  ELSE IF Has(r, "type") /\ r.type = "line"
    THEN (IF Has(r, "text") THEN r.text ELSE <<>>)
  ELSE <<>>

aliasToString(r) ==
  IF Has(r, "type") /\ r.type = "alias"
    THEN kwAlias \o <<" ">> \o r.alias \o <<"=", "\"">> \o r.command \o <<"\"">>
  ELSE IF Has(r, "type") /\ r.type = "line"
    THEN (IF Has(r, "text") THEN r.text ELSE <<>>)
  ELSE <<>>

\* variant: lines.splice(0, 0, marker)
SpliceMarkerFront(lines) == <<HulkMarker>> \o lines

\* lines.splice(1, 0, marker)
SpliceMarker(lines) ==
  IF Len(lines) = 0 THEN <<HulkMarker>>
  ELSE <<lines[1]>> \o <<HulkMarker>> \o Tail(lines)

RenderedLines(recs) == [i \in 1..Len(recs) |-> aliasToString(recs[i])]

\* the text saveAliases writes
Serialize(recs) == JoinLines(SpliceMarker(RenderedLines(recs)))

----------------------------------------------------------------------------
(* Inputs: alias-file lines, texts and record lists *)

LnGit == <<"#", " ", "G", "i", "t">>
LnSystem == <<"#", " ", "S", "y", "s", "t", "e", "m">>
LnBlank == <<>>
LnGs == <<"a", "l", "i", "a", "s", " ", "g", "s", "=", "\"", "g", "i", "t", " ", "s", "t", "a", "t", "u", "s", "\"">>
LnLl == <<"a", "l", "i", "a", "s", " ", "l", "l", "=", "\"", "l", "s", " ", "-", "l", "a", "\"">>
LnSingle == <<"a", "l", "i", "a", "s", " ", "l", "l", "=", "'", "l", "s", " ", "-", "l", "a", "'">>
LnBare == <<"a", "l", "i", "a", "s", " ", "e", "=", "v", "i">>
LnEmptyQuoted == <<" ", "a", "l", "i", "a", "s", " ", "x", "=", "\"", "\"">>
LnSource == <<"s", "o", "u", "r", "c", "e", " ", "~", "/", ".", "x">>
LnShebang == <<"#", "!", "/", "u", "s", "r", "/", "b", "i", "n", "/", "e", "n", "v", " ", "b", "a", "s", "h">>
LnCommented == <<"#", " ", "a", "l", "i", "a", "s", " ", "z", "=", "1">>

AliasLines ==
  {LnGit, LnBlank, LnGs, LnSingle, LnBare, LnEmptyQuoted, LnSource,
   LnShebang, LnCommented}

SeqsUpTo(S, n) == UNION {[1..k -> S] : k \in 0..n}

\* the example of the specification, joined with "\n" and with "\r\n"
ExampleLines == <<LnGit, LnGs, LnBlank, LnSystem, LnLl>>

RECURSIVE JoinCRLF(_)
JoinCRLF(ls) ==
  IF Len(ls) = 0 THEN <<>>
  ELSE IF Len(ls) = 1 THEN ls[1]
  ELSE ls[1] \o <<"\r", "\n">> \o JoinCRLF(Tail(ls))

AliasTexts ==
  {JoinLines(ls) : ls \in SeqsUpTo(AliasLines, MaxLines)}
    \cup {JoinLines(ExampleLines), JoinCRLF(ExampleLines)}

NoFile == [exists |-> FALSE, content |-> <<>>]
File(t) == [exists |-> TRUE, content |-> t]

\* records as the renderer hands them to saveAliases
RecAdded ==
  [type |-> "alias", alias |-> <<"g", "s">>,
   command |-> <<"g", "i", "t", " ", "s", "t", "a", "t", "u", "s">>,
   group |-> <<"G", "i", "t">>, line |-> 1, id |-> 1]
RecHeading == [line |-> 0, type |-> "line", text |-> LnGit, group |-> TRUE]
RecBlank == [line |-> 2, type |-> "line", text |-> LnBlank, group |-> FALSE]
RecNoText == [line |-> 3, type |-> "line", group |-> FALSE]
RecUntyped == [alias |-> <<"x">>, command |-> <<"y">>, id |-> 2]

RecordLists ==
  {<<>>, <<RecAdded>>, <<RecHeading, RecAdded, RecBlank>>,
   <<RecAdded, RecNoText, RecUntyped>>}

----------------------------------------------------------------------------
(* The main process: the getAliases and saveAliases requests *)

MainIdle ==
  /\ aliasFile = NoFile
  /\ backupFile = NoFile
  /\ aliasesResp = [status |-> "none", records |-> <<>>]
  /\ prevFile = NoFile
  /\ lastSaved = <<>>
  /\ lastOp = "init"
  /\ cycles = 0
  /\ nSaves = 0

EnvIdle ==
  /\ envFile = NoFile
  /\ envResp = [status |-> "none", records |-> <<>>]

LineIdle ==
  /\ envLine = <<>>
  /\ envVarResult = [status |-> "none"]

Absent == [kind |-> "absent", ref |-> 0]

StoreIdle ==
  /\ data = Absent
  /\ heap = <<>>
  /\ promises = <<>>
  /\ ipc = <<>>
  /\ adds = <<>>
  /\ saves = <<>>
  /\ nextId = 1
  /\ nCalls = 0
  /\ lastAdd = [status |-> "none"]
  /\ deleted = {}
  /\ storeOut = [op |-> "none"]

\* os.homedir() of two users
HomeRoot == <<"/", "r", "o", "o", "t">>
HomeUser == <<"/", "h", "o", "m", "e", "/", "u">>
Homes == {HomeRoot, HomeUser}

HostIdle ==
  /\ bashrcFile = NoFile
  /\ bashrcResp = [status |-> "none", records |-> <<>>]
  /\ configExists = FALSE
  /\ configResp = [status |-> "none"]
  /\ home = HomeRoot
  /\ backupPath = [status |-> "none"]

\* the value of the first option of the group select
NoneOption == <<"n", "o", "n", "e">>

\* the modal as createAddAliasModal leaves it: empty text fields, no group
\* selected
ModalIdle ==
  /\ aliasInput = <<>>
  /\ commandInput = <<>>
  /\ groupSelect = NoneOption
  /\ flows = <<>>
  /\ rendered = [status |-> "none", records |-> <<>>]
  /\ nSubmits = 0

Init ==
  /\ aliasFile \in {NoFile} \cup {File(t) : t \in AliasTexts}
  /\ backupFile = NoFile
  /\ aliasesResp = [status |-> "none", records |-> <<>>]
  /\ prevFile = NoFile
  /\ lastSaved = <<>>
  /\ lastOp = "init"
  /\ cycles = 0
  /\ nSaves = 0
  /\ EnvIdle
  /\ LineIdle
  /\ StoreIdle
  /\ HostIdle
  /\ ModalIdle

\* ipcMain.handle("getAliases", () => App.aliases): fs.readFileSync throws
\* when the file is missing; no backup is written
GetAliases ==
  /\ aliasesResp' =
       IF aliasFile.exists
         THEN [status |-> "ok", records |-> aliases(aliasFile.content)]
         ELSE [status |-> "error", records |-> <<>>]
  /\ lastOp' = "getAliases"
  /\ UNCHANGED <<aliasFile, backupFile, prevFile, lastSaved, cycles, nSaves>>
  /\ UNCHANGED <<envVars, lineVars, storeVars, hostVars, modalVars>>

\* ipcMain.handle("saveAliases", (_, ...args) => App.saveAliases(...args))
SaveAliases(recs) ==
  /\ nSaves < MaxSaves
  /\ aliasFile' = File(Serialize(recs))
  /\ prevFile' = aliasFile
  /\ lastSaved' = recs
  /\ lastOp' = "saveAliases"
  /\ cycles' = IF aliasesResp.status = "ok" /\ recs = aliasesResp.records
                 THEN cycles + 1 ELSE 0
  /\ aliasesResp' = [status |-> "none", records |-> <<>>]
  /\ nSaves' = nSaves + 1
  /\ UNCHANGED backupFile
  /\ UNCHANGED <<envVars, lineVars, storeVars, hostVars, modalVars>>

SaveInputs ==
  RecordLists \cup
    (IF aliasesResp.status = "ok" THEN {aliasesResp.records} ELSE {})

Next ==
  \/ GetAliases
  \/ \E recs \in SaveInputs : SaveAliases(recs)

vars == <<mainVars, envVars, lineVars, storeVars, hostVars, modalVars>>

Spec == Init /\ [][Next]_vars

----------------------------------------------------------------------------
(* Properties of the alias file handlers *)

IsAliasRec(r) == Has(r, "type") /\ r.type = "alias"
IsLineRec(r) == Has(r, "type") /\ r.type = "line"

\* a group-heading record: a line record flagged as group whose text is a
\* leading comment
IsHeadingRec(r) ==
  /\ IsLineRec(r)
  /\ r.group = TRUE
  /\ LeadingSpaces(r.text) < Len(r.text)
  /\ r.text[LeadingSpaces(r.text) + 1] = "#"

\* the group an alias record at position i inherits from the headings before it
ExpectedGroup(recs, i) ==
  LET H == {j \in 1..(i - 1) : IsHeadingRec(recs[j])}
  IN  IF H = {} THEN General ELSE StripHeading(recs[Max(H)].text)

\* the (alias, command, group) triples of a record list, in order
Triples(recs) ==
  LET A == SelectSeq(recs, IsAliasRec)
  IN  [i \in 1..Len(A) |-> <<A[i].alias, A[i].command, A[i].group>>]

WrittenLines == toLines(aliasFile.content)

\* C1: every alias record returned by getAliases has the group of the nearest
\* group heading before it in the file, or "General" when there is none.
C1_GroupInheritance ==
  (lastOp = "getAliases" /\ aliasesResp.status = "ok") =>
    \A i \in DOMAIN aliasesResp.records :
      IsAliasRec(aliasesResp.records[i]) =>
        aliasesResp.records[i].group = ExpectedGroup(aliasesResp.records, i)

\* C2: saving the freshly loaded records of a file that was itself written by
\* such a save leaves the text of the file unchanged.
C2_SaveCycleIdempotent ==
  (lastOp = "saveAliases" /\ cycles >= 2) => aliasFile = prevFile

\* C3: loading the file written by a save of freshly loaded records gives the
\* same (alias, command, group) triples, in the same order, as the records
\* that were saved.
C3_RoundTripTriples ==
  (lastOp = "getAliases" /\ aliasesResp.status = "ok" /\ cycles >= 1) =>
    Triples(aliasesResp.records) = Triples(lastSaved)

C3_Witness ==
  /\ lastOp = "getAliases" /\ aliasesResp.status = "ok" /\ cycles >= 1
  /\ Len(Triples(lastSaved)) >= 2
  /\ \E i \in DOMAIN lastSaved : IsHeadingRec(lastSaved[i])
  /\ \E i \in DOMAIN lastSaved :
       IsLineRec(lastSaved[i]) /\ lastSaved[i].text = <<>>
  /\ aliasFile.content # prevFile.content

\* the position in the written file of the line rendered from record i
WrittenIndex(i) == IF i = 1 THEN 1 ELSE i + 1

\* C4: saveAliases writes one line per record, in list order, next to the
\* marker line: an alias record as alias <name>="<command>", a line record
\* as its text.
C4_SaveRendersRecords ==
  lastOp = "saveAliases" =>
    /\ Len(WrittenLines) = Len(lastSaved) + 1
    /\ \A i \in DOMAIN lastSaved :
         LET r == lastSaved[i]
             w == WrittenLines[WrittenIndex(i)]
         IN  /\ IsAliasRec(r) =>
                  w = kwAlias \o <<" ">> \o r.alias \o <<"=">>
                        \o <<"\"">> \o r.command \o <<"\"">>
             /\ IsLineRec(r) => w = (IF Has(r, "text") THEN r.text ELSE <<>>)

C4_Witness ==
  /\ lastOp = "saveAliases"
  /\ Len(lastSaved) >= 3
  /\ \E i \in DOMAIN lastSaved : IsAliasRec(lastSaved[i])
  /\ \E i \in DOMAIN lastSaved :
       IsLineRec(lastSaved[i]) /\ Has(lastSaved[i], "text")
         /\ lastSaved[i].text = <<>>
  /\ \E i \in DOMAIN lastSaved : IsHeadingRec(lastSaved[i])

\* the positions of the line feeds of a text
LineFeeds(content) == {p \in DOMAIN content : content[p] = "\n"}

\* the position of the i-th line feed of a text
NthLineFeed(content, i) ==
  CHOOSE p \in LineFeeds(content) :
    Cardinality({q \in LineFeeds(content) : q < p}) = i - 1

\* the i-th raw line of a text cut at every line feed, a carriage return
\* directly before the line feed belonging to the cut
RawLine(content, i) ==
  LET n == Cardinality(LineFeeds(content))
      s == IF i = 1 THEN 1 ELSE NthLineFeed(content, i - 1) + 1
      e == IF i = n + 1 THEN Len(content) ELSE NthLineFeed(content, i) - 1
  IN  IF i <= n /\ e >= s /\ content[e] = "\r"
        THEN SubSeq(content, s, e - 1)
        ELSE SubSeq(content, s, e)

\* C21: getAliases answers with exactly one record per raw line of the file
\* (one more than the file has line feeds), in file order; the record at
\* position i has line = i counted from 0, and a line record has the raw line
\* as its text.
C21_RecordsAtLineIndex ==
  (lastOp = "getAliases" /\ aliasesResp.status = "ok") =>
    LET recs == aliasesResp.records
    IN  /\ Len(recs) = Cardinality(LineFeeds(aliasFile.content)) + 1
        /\ \A i \in DOMAIN recs :
             /\ recs[i].line = i - 1
             /\ IsLineRec(recs[i]) =>
                  recs[i].text = RawLine(aliasFile.content, i)

\* a file of one alias that ends with a line feed has been loaded
C21_Witness ==
  /\ lastOp = "getAliases" /\ aliasesResp.status = "ok"
  /\ aliasFile.content = JoinLines(<<LnGs, LnBlank>>)
  /\ Len(aliasesResp.records) = 2
  /\ aliasesResp.records[1].type = "alias"
  /\ aliasesResp.records[2].text = <<>>

\* the save added exactly one marker line to the rendered records
OneMarkerAdded ==
  Cardinality({i \in DOMAIN WrittenLines : WrittenLines[i] = HulkMarker})
    = 1 + Cardinality({i \in DOMAIN lastSaved :
                         aliasToString(lastSaved[i]) = HulkMarker})

\* C5 (as claimed): after every saveAliases, the empty list included, the
\* second line of the file is the marker, added exactly once.
C5_MarkerSecondLine ==
  lastOp = "saveAliases" =>
    /\ Len(WrittenLines) >= 2
    /\ WrittenLines[2] = HulkMarker
    /\ OneMarkerAdded

\* C5 (amended): after saveAliases of a non-empty list the second line of the
\* file is the marker; after saveAliases of the empty list the marker is the
\* first and only line; in both cases the save adds the marker exactly once.
C5_MarkerPlacement ==
  lastOp = "saveAliases" =>
    /\ Len(lastSaved) >= 1 =>
         (Len(WrittenLines) >= 2 /\ WrittenLines[2] = HulkMarker)
    /\ Len(lastSaved) = 0 => WrittenLines = <<HulkMarker>>
    /\ OneMarkerAdded

C5_Witness ==
  /\ lastOp = "saveAliases"
  /\ Len(lastSaved) = 1
  /\ nSaves = 2
  /\ prevFile.content = HulkMarker

\* C6: when saveAliases overwrites the aliases file, the backup file holds the
\* content the aliases file had immediately before.
C6_BackupBeforeOverwrite ==
  (lastOp = "saveAliases" /\ prevFile.exists) =>
    (backupFile.exists /\ backupFile.content = prevFile.content)

\* C7: after every successful getAliases the backup file holds the content of
\* the aliases file.
C7_BackupOnLoad ==
  (lastOp = "getAliases" /\ aliasesResp.status = "ok") =>
    (backupFile.exists /\ backupFile.content = aliasFile.content)

----------------------------------------------------------------------------
(* Application.parseEnvVar and Application.env *)

\* line.match(/^\s{0,}export\s([\w_]+)=(.+)$/): the position of the "=" that
\* ends the name, or 0 when the line does not match
ExportEq(line) ==
  LET k == LeadingSpaces(line)
      E == {e \in (k + 9)..(Len(line) - 1) :
              /\ SubSeq(line, k + 1, k + 6) = kwExport
              /\ IsSpace(line[k + 7])
              /\ line[e] = "="
              /\ \A j \in (k + 8)..(e - 1) : IsWord(line[j])
              /\ \A j \in (e + 1)..Len(line) : ~IsLineTerminator(line[j])}
  IN  IF E = {} THEN 0 ELSE Min(E)

\* variant: the value is kept as written
EnvValueKept(v) == v

\* v.match(/^"/) ? v.replace(/^\\?"/m, "").replace(/\\?"$/, "") : v
EnvValue(v) ==
  IF Len(v) >= 1 /\ v[1] = "\""
    THEN LET r == Tail(v)
             n == Len(r)
         IN  IF n >= 2 /\ r[n] = "\"" /\ r[n - 1] = "\\"
               THEN SubSeq(r, 1, n - 2)
             ELSE IF n >= 1 /\ r[n] = "\"" THEN SubSeq(r, 1, n - 1)
             ELSE r
    ELSE v

\* line.match(/^\s{0,}#\s{0,}\w+/)
IsEnvGroupLine(line) ==
  LET k == LeadingSpaces(line)
  IN  /\ k < Len(line)
      /\ line[k + 1] = "#"
      /\ LET rest == SubSeq(line, k + 2, Len(line))
             m == LeadingSpaces(rest)
         IN  m < Len(rest) /\ IsWord(rest[m + 1])

\* line.match(/^\s{0,}#\s{0,}(.+)$/) on a line that IsEnvGroupLine:
\* matches[1], or "General" when there is no match
EnvGroupName(line) ==
  LET k == LeadingSpaces(line)
      rest == SubSeq(line, k + 2, Len(line))
      m == LeadingSpaces(rest)
      name == SubSeq(rest, m + 1, Len(rest))
  IN  IF \A j \in DOMAIN name : ~IsLineTerminator(name[j])
        THEN name ELSE General

\* variant: a line with export that is no assignment becomes a line record
parseEnvVarLenient(line) ==
  IF Includes(line, ShebangEnv)
    THEN [status |-> "ok", rec |-> [line |-> line, type |-> "shebang"]]
  ELSE IF Includes(line, kwExport) /\ ExportEq(line) # 0
    THEN LET e == ExportEq(line)
             k == LeadingSpaces(line)
         IN  [status |-> "ok",
              rec |-> [line |-> line,
                       name |-> SubSeq(line, k + 8, e - 1),
                       value |-> EnvValue(SubSeq(line, e + 1, Len(line))),
                       type |-> "var"]]
  ELSE IF IsEnvGroupLine(line)
    THEN [status |-> "ok",
          rec |-> [line |-> line, type |-> "group",
                   name |-> EnvGroupName(line)]]
  ELSE [status |-> "ok", rec |-> [line |-> line, type |-> "line"]]

\* the destructuring of a failed match throws
parseEnvVar(line) ==
  IF Includes(line, ShebangEnv)
    THEN [status |-> "ok", rec |-> [line |-> line, type |-> "shebang"]]
  ELSE IF Includes(line, kwExport)
    THEN LET e == ExportEq(line)
             k == LeadingSpaces(line)
         IN  IF e = 0 THEN [status |-> "throw"]
             ELSE [status |-> "ok",
                   rec |-> [line |-> line,
                            name |-> SubSeq(line, k + 8, e - 1),
                            value |-> EnvValue(SubSeq(line, e + 1, Len(line))),
                            type |-> "var"]]
  ELSE IF IsEnvGroupLine(line)
    THEN [status |-> "ok",
          rec |-> [line |-> line, type |-> "group",
                   name |-> EnvGroupName(line)]]
  ELSE [status |-> "ok", rec |-> [line |-> line, type |-> "line"]]

\* variant: a line record resets the current group
NextGroupReset(currentGroup, envVar) ==
  IF envVar.type = "group" THEN envVar.name
  ELSE IF envVar.type = "line" THEN General
  ELSE currentGroup

\* if (envVar.type === "group") currentGroup = envVar.name
NextGroup(currentGroup, envVar) ==
  IF envVar.type = "group" THEN envVar.name ELSE currentGroup

WithGroup(envVar, g) ==
  [f \in DOMAIN envVar \cup {"group"} |->
     IF f = "group" THEN g ELSE envVar[f]]

RECURSIVE EnvFrom(_, _, _)
EnvFrom(ls, i, currentGroup) ==
  IF i > Len(ls) THEN <<>>
  ELSE LET envVar == parseEnvVar(ls[i]).rec
           g == NextGroup(currentGroup, envVar)
       IN  <<IF envVar.type = "var" THEN WithGroup(envVar, g) ELSE envVar>>
             \o EnvFrom(ls, i + 1, g)

\* variant: a missing file is answered with the empty list
envMissingAsEmpty(file) ==
  IF ~file.exists THEN [status |-> "ok", records |-> <<>>]
  ELSE LET ls == toLines(file.content)
       IN  IF \E i \in DOMAIN ls : parseEnvVar(ls[i]).status = "throw"
             THEN [status |-> "error", records |-> <<>>]
             ELSE [status |-> "ok", records |-> EnvFrom(ls, 1, General)]

\* Application.env: the request fails when the file is missing or when
\* parseEnvVar throws on a line
env(file) ==
  IF ~file.exists THEN [status |-> "error", records |-> <<>>]
  ELSE LET ls == toLines(file.content)
       IN  IF \E i \in DOMAIN ls : parseEnvVar(ls[i]).status = "throw"
             THEN [status |-> "error", records |-> <<>>]
             ELSE [status |-> "ok", records |-> EnvFrom(ls, 1, General)]

----------------------------------------------------------------------------
(* Inputs: env-file lines and texts *)

EnvPaths == <<"#", " ", "P", "a", "t", "h", "s">>
EnvGit == <<"#", " ", "G", "i", "t">>
EnvVarA == <<"e", "x", "p", "o", "r", "t", " ", "A", "=", "b">>
EnvVarB == <<"e", "x", "p", "o", "r", "t", " ", "B", "=", "\"", "c", " ", "d", "\"">>
EnvNoValue == <<"e", "x", "p", "o", "r", "t", " ", "F", "O", "O">>
EnvDashed == <<"#", " ", "-", "x">>
EnvBareHash == <<"#">>
EnvAssign == <<"P", "A", "T", "H", "=", "x">>
EnvExportNote == <<"#", " ", "e", "x", "p", "o", "r", "t", "s">>
EnvShebangExport == ShebangEnv \o <<" ">> \o kwExport

EnvLines ==
  {EnvPaths, EnvGit, LnBlank, EnvVarA, EnvVarB, EnvNoValue, EnvDashed,
   LnShebang, EnvAssign, EnvExportNote, EnvShebangExport}

EnvExampleLines ==
  <<LnShebang, EnvVarA, EnvPaths, LnBlank, EnvVarB, EnvAssign, EnvBareHash,
    EnvVarA, EnvGit, EnvDashed, EnvVarB>>

EnvTexts ==
  {JoinLines(ls) : ls \in SeqsUpTo(EnvLines, MaxEnvLines)}
    \cup {JoinLines(EnvExampleLines), JoinCRLF(EnvExampleLines)}

EnvNames == {<<"F", "O", "O">>, <<"A", "_", "1">>}

\* values without double quotes
EnvValues ==
  {<<"b", "a", "r">>, <<>>, <<"a", " ", "b">>, <<"a", "\\">>, <<"\\">>,
   <<"'", "q", "'">>, <<"a", "=", "b">>, <<"#", "c">>, <<" ", "x">>,
   <<"$", "H", "O", "M", "E", "/", "b", "i", "n">>, <<"x", "\r", "y">>,
   ShebangEnv, <<"1">>}

ExportQuoted(N, V) == kwExport \o <<" ">> \o N \o <<"=", "\"">> \o V \o <<"\"">>
ExportBare(N, V) == kwExport \o <<" ">> \o N \o <<"=">> \o V

EnvLineInputs ==
  EnvLines \cup {EnvBareHash}
    \cup {ExportQuoted(N, V) : N \in EnvNames, V \in EnvValues}
    \cup {ExportBare(N, V) : N \in EnvNames, V \in EnvValues}

----------------------------------------------------------------------------
(* The getEnv request *)

InitEnv ==
  /\ MainIdle
  /\ LineIdle
  /\ StoreIdle
  /\ HostIdle
  /\ ModalIdle
  /\ envFile \in {NoFile} \cup {File(t) : t \in EnvTexts}
  /\ envResp = [status |-> "none", records |-> <<>>]

\* ipcMain.handle("getEnv", () => App.env)
GetEnv ==
  /\ envResp' = env(envFile)
  /\ UNCHANGED <<envFile, mainVars, lineVars, storeVars, hostVars, modalVars>>

NextEnv == GetEnv

SpecEnv == InitEnv /\ [][NextEnv]_vars

(* parseEnvVar applied to one line *)

InitEnvLine ==
  /\ MainIdle
  /\ EnvIdle
  /\ StoreIdle
  /\ HostIdle
  /\ ModalIdle
  /\ envLine \in EnvLineInputs
  /\ envVarResult = [status |-> "none"]

ParseEnvVar ==
  /\ envVarResult' = parseEnvVar(envLine)
  /\ UNCHANGED <<envLine, mainVars, envVars, storeVars, hostVars, modalVars>>

NextEnvLine == ParseEnvVar

SpecEnvLine == InitEnvLine /\ [][NextEnvLine]_vars

----------------------------------------------------------------------------
(* Properties of the env parser *)

\* the group a var record at position i has by the group records before it
ExpectedEnvGroup(recs, i) ==
  LET G == {j \in 1..(i - 1) : recs[j].type = "group"}
  IN  IF G = {} THEN General ELSE recs[Max(G)].name

\* C8: in the answer of getEnv every var record has the name of the nearest
\* group record before it as its group, or "General" when there is none.
C8_VarGroup ==
  envResp.status = "ok" =>
    \A i \in DOMAIN envResp.records :
      envResp.records[i].type = "var" =>
        envResp.records[i].group = ExpectedEnvGroup(envResp.records, i)

C8_Witness ==
  /\ envResp.status = "ok"
  /\ \E g \in DOMAIN envResp.records : \E l \in DOMAIN envResp.records :
     \E i \in DOMAIN envResp.records :
       /\ g < l /\ l < i
       /\ envResp.records[g].type = "group"
       /\ envResp.records[l].type = "line"
       /\ envResp.records[i].type = "var"
       /\ \A j \in (g + 1)..(i - 1) : envResp.records[j].type # "group"
       /\ envResp.records[i].group = envResp.records[g].name
  /\ \E i \in DOMAIN envResp.records :
       /\ envResp.records[i].type = "var"
       /\ envResp.records[i].group = General

\* C9 (as claimed): for every name N and value V without double quotes, the
\* lines export N="V" and export N=V parse to a var record with value V.
C9_QuoteStripping ==
  envVarResult.status # "none" =>
    \A N \in EnvNames, V \in EnvValues :
      envLine \in {ExportQuoted(N, V), ExportBare(N, V)} =>
        /\ envVarResult.status = "ok"
        /\ envVarResult.rec.type = "var"
        /\ envVarResult.rec.value = V

\* the values for which both forms are read back unchanged
PlainValue(V) ==
  /\ \A j \in DOMAIN V : ~IsLineTerminator(V[j]) /\ V[j] # "\""
  /\ ~Contains(V, ShebangEnv)

\* C9 (amended): for every name N of word characters and every value V with
\* no double quote, no line terminator and no "#!/usr/bin/env" in it,
\* export N="V" parses to a var record with value V unless V ends with a
\* backslash, and export N=V parses to a var record with value V unless V
\* is empty.
C9_QuoteStrippingPlain ==
  envVarResult.status # "none" =>
    \A N \in EnvNames, V \in EnvValues :
      PlainValue(V) =>
        /\ (envLine = ExportQuoted(N, V)
              /\ ~(Len(V) >= 1 /\ V[Len(V)] = "\\")) =>
             /\ envVarResult.status = "ok"
             /\ envVarResult.rec.type = "var"
             /\ envVarResult.rec.name = N
             /\ envVarResult.rec.value = V
        /\ (envLine = ExportBare(N, V) /\ V # <<>>) =>
             /\ envVarResult.status = "ok"
             /\ envVarResult.rec.type = "var"
             /\ envVarResult.rec.name = N
             /\ envVarResult.rec.value = V

C9_Witness ==
  /\ envVarResult.status = "ok"
  /\ envLine = ExportQuoted(<<"F", "O", "O">>, <<"b", "a", "r">>)
  /\ envVarResult.rec.value = <<"b", "a", "r">>

\* the lines of the env file that contain "export" without being an
\* assignment ^\s*export\s+NAME=VALUE
ExportLookalikes ==
  LET ls == toLines(envFile.content)
  IN  {i \in DOMAIN ls : Includes(ls[i], kwExport) /\ ExportEq(ls[i]) = 0}

\* C17 as stated: getEnv on an env file with a line that contains "export"
\* and is no assignment fails and answers with no record list.
C17_ExportLineFails ==
  (envResp.status # "none" /\ envFile.exists /\ ExportLookalikes # {}) =>
    (envResp.status = "error" /\ envResp.records = <<>>)

\* C17 amended: getEnv on an env file with a line that contains "export", is
\* no assignment and does not contain "#!/usr/bin/env" fails and answers with
\* no record list.
C17_ExportLineFailsUnlessShebang ==
  (/\ envResp.status # "none"
   /\ envFile.exists
   /\ \E i \in ExportLookalikes :
        ~Includes(toLines(envFile.content)[i], ShebangEnv)) =>
    (envResp.status = "error" /\ envResp.records = <<>>)

\* getEnv has failed on a file whose first line is a valid assignment and
\* whose second line mentions export in a comment
C17_Witness ==
  /\ envResp.status = "error"
  /\ envFile.exists
  /\ toLines(envFile.content) = <<EnvVarA, EnvExportNote>>

----------------------------------------------------------------------------
(* The renderer's Store (class Store) and its requests to the main process *)

VALID_STORE_KEYS == {"aliases"}

\* line.group && line.text?.includes(value.group): group is a boolean on
\* line records and a string on alias records
IsGroupHeadingFor(line, value) ==
  /\ Has(line, "group")
  /\ (IF IsLineRec(line) THEN line.group ELSE line.group # <<>>)
  /\ Has(line, "text")
  /\ Includes(line.text, value.group)

\* variant: the index after the last line before the next group heading
NewIndexGroupEnd(list, value) ==
  LET S == {j \in DOMAIN list : IsGroupHeadingFor(list[j], value)}
      N == IF S = {} THEN {}
           ELSE {j \in DOMAIN list : j > Min(S) /\ IsHeadingRec(list[j])}
  IN  IF S = {} THEN 0 ELSE IF N = {} THEN Len(list) ELSE Min(N) - 1

\* list.indexOf(list.find(...)) + 1
NewIndex(list, value) ==
  LET S == {j \in DOMAIN list : IsGroupHeadingFor(list[j], value)}
  IN  IF S = {} THEN 0 ELSE Min(S)

\* variant: the position of the record is used as its identifier
ItemIdFromLine(value, newIndex, id) ==
  [f \in DOMAIN value \cup {"line", "id"} |->
     IF f = "line" THEN newIndex ELSE IF f = "id" THEN newIndex + 1
     ELSE value[f]]

\* { ...value, line: newIndex, id }
Item(value, newIndex, id) ==
  [f \in DOMAIN value \cup {"line", "id"} |->
     IF f = "line" THEN newIndex ELSE IF f = "id" THEN id ELSE value[f]]

\* list.splice(newIndex, 0, item)
InsertAt(list, newIndex, item) ==
  SubSeq(list, 1, newIndex) \o <<item>> \o SubSeq(list, newIndex + 1, Len(list))

\* list.splice(index, 1), index counted from 1
RemoveAt(list, index) ==
  SubSeq(list, 1, index - 1) \o SubSeq(list, index + 1, Len(list))

\* list.findIndex((item) => item.id === id), counted from 1; 0 when not found
FindIndexById(list, id) ==
  LET S == {j \in DOMAIN list : Has(list[j], "id") /\ list[j].id = id}
  IN  IF S = {} THEN 0 ELSE Min(S)

\* what an await of a cache entry is waiting for
Settled(on) ==
  IF on.kind = "promise" THEN promises[on.ref].state # "pending" ELSE TRUE
Rejected(on) == on.kind = "promise" /\ promises[on.ref].state = "rejected"
\* the array an await of a cache entry resolves to
Awaited(on) == IF on.kind = "promise" THEN promises[on.ref].ref ELSE on.ref

\* a suspended call whose await can return
Ready(call) == Settled(call.on)

\* continuations run in the order in which they were queued: no call that was
\* suspended before the one numbered seq is still waiting to resume
NoEarlierReady(seq) ==
  /\ \A m \in DOMAIN adds : Ready(adds[m]) => adds[m].seq >= seq
  /\ \A m \in DOMAIN saves : Ready(saves[m]) => saves[m].seq >= seq

\* every suspended call waits for an answer of the main process
NoneReady ==
  /\ \A m \in DOMAIN adds : ~Ready(adds[m])
  /\ \A m \in DOMAIN saves : ~Ready(saves[m])
  /\ \A f \in DOMAIN flows :
       /\ flows[f].pc # "added"
       /\ ~(flows[f].pc = "saved" /\ Settled(data))

\* Store.add("aliases", value) up to its await
StoreAddStart(value) ==
  /\ nCalls < MaxStoreCalls
  /\ nCalls' = nCalls + 1
  /\ IF data.kind = "absent"
       THEN /\ heap' = Append(heap, <<>>)
            /\ data' = [kind |-> "array", ref |-> Len(heap) + 1]
       ELSE UNCHANGED <<heap, data>>
  /\ adds' = Append(adds, [value |-> value, on |-> data', seq |-> nCalls])
  /\ UNCHANGED <<promises, ipc, saves, nextId, lastAdd, storeOut>>
  /\ UNCHANGED <<mainVars, envVars, lineVars, deleted, hostVars>>

\* Store.add("aliases", value) after its await
StoreAddFinish(n) ==
  /\ n \in DOMAIN adds
  /\ Ready(adds[n])
  /\ NoEarlierReady(adds[n].seq)
  /\ adds' = RemoveAt(adds, n)
  /\ IF Rejected(adds[n].on)
       THEN /\ lastAdd' = [status |-> "rejected"]
            /\ UNCHANGED <<heap, data, nextId>>
       ELSE LET l == Awaited(adds[n].on)
                list == heap[l]
                newIndex == NewIndex(list, adds[n].value)
                item == Item(adds[n].value, newIndex, nextId)
            IN  /\ heap' = [heap EXCEPT ![l] = InsertAt(list, newIndex, item)]
                /\ data' = [kind |-> "array", ref |-> l]
                /\ nextId' = nextId + 1
                /\ lastAdd' = [status |-> "done", value |-> adds[n].value,
                               id |-> nextId, index |-> newIndex,
                               before |-> list, after |-> heap'[l]]
  /\ UNCHANGED <<promises, ipc, saves, nCalls, storeOut>>
  /\ UNCHANGED <<mainVars, envVars, lineVars, deleted, hostVars>>

\* Store.delete("aliases", id), id = 0 standing for an identifier that was
\* never given out: a cached promise has no findIndex
StoreDelete(id) ==
  /\ LET at == IF data.kind = "array"
                 THEN FindIndexById(heap[data.ref], id) ELSE 0
     IN  /\ heap' = IF at # 0
                      THEN [heap EXCEPT ![data.ref] =
                              RemoveAt(heap[data.ref], at)]
                      ELSE heap
         /\ storeOut' =
              [op |-> "delete", id |-> id,
               result |-> IF data.kind = "promise" THEN "TypeError"
                          ELSE IF at # 0 THEN "true" ELSE "false",
               recs |-> IF data.kind = "array" THEN heap'[data.ref] ELSE <<>>,
               before |-> IF data.kind = "array" THEN heap[data.ref] ELSE <<>>,
               first |-> id \notin deleted]
  /\ deleted' = IF id = 0 THEN deleted ELSE deleted \cup {id}
  /\ UNCHANGED <<data, promises, ipc, adds, saves, nextId, nCalls, lastAdd>>
  /\ UNCHANGED <<mainVars, envVars, lineVars, hostVars>>

\* Store.get("aliases", id), id = 0 standing for no id
StoreGet(id) ==
  /\ LET at == IF data.kind = "array" /\ id # 0
                 THEN FindIndexById(heap[data.ref], id) ELSE 0
     IN  storeOut' =
           [op |-> "get", id |-> id,
            result |-> IF data.kind = "absent" THEN "undefined"
                       ELSE IF id = 0
                         THEN (IF data.kind = "promise" THEN "promise"
                               ELSE "list")
                       ELSE IF data.kind = "promise" THEN "TypeError"
                       ELSE IF at # 0 THEN "item" ELSE "undefined",
            recs |-> IF data.kind = "array" /\ id = 0 THEN heap[data.ref]
                     ELSE IF at # 0 THEN <<heap[data.ref][at]>> ELSE <<>>]
  /\ UNCHANGED <<data, heap, promises, ipc, adds, saves, nextId, nCalls,
                 lastAdd>>
  /\ UNCHANGED <<mainVars, envVars, lineVars, deleted, hostVars>>

\* Store.fetch(key): the promise of window.API.getAliases() is cached as it
\* is; a key outside VALID_STORE_KEYS falls through and returns undefined
StoreFetch(key) ==
  /\ IF key \in VALID_STORE_KEYS
       THEN /\ nCalls < MaxStoreCalls
            /\ nCalls' = nCalls + 1
            /\ promises' = Append(promises, [state |-> "pending", ref |-> 0])
            /\ ipc' = Append(ipc, [name |-> "getAliases",
                                   promise |-> Len(promises) + 1,
                                   defined |-> FALSE, args |-> <<>>])
            /\ data' = [kind |-> "promise", ref |-> Len(promises) + 1]
            /\ storeOut' = [op |-> "fetch", id |-> 0, result |-> "promise",
                            recs |-> <<>>, key |-> key]
       ELSE /\ storeOut' = [op |-> "fetch", id |-> 0, result |-> "undefined",
                            recs |-> <<>>, key |-> key]
            /\ UNCHANGED <<promises, ipc, data, nCalls>>
  /\ UNCHANGED <<heap, adds, saves, nextId, lastAdd>>
  /\ UNCHANGED <<mainVars, envVars, lineVars, deleted, hostVars>>

\* variant: only the alias records of the list are handed over
SaveArgsAliasesOnly(on) ==
  IF on.kind = "absent" THEN <<>> ELSE SelectSeq(heap[Awaited(on)], IsAliasRec)

\* fun(list): the argument of window.API.saveAliases, the awaited cache entry
\* (undefined, shown as <<>>, when the store has no entry)
SaveArgs(on) == IF on.kind = "absent" THEN <<>> ELSE heap[Awaited(on)]

\* Store.save("aliases") up to its await
StoreSaveStart ==
  /\ nCalls < MaxStoreCalls
  /\ nCalls' = nCalls + 1
  /\ saves' = Append(saves, [on |-> data, seq |-> nCalls])
  /\ UNCHANGED <<data, heap, promises, ipc, adds, nextId, lastAdd, storeOut>>
  /\ UNCHANGED <<mainVars, envVars, lineVars, deleted, hostVars>>

\* Store.save("aliases") after its await: window.API.saveAliases(list), whose
\* answer is not awaited
StoreSaveFinish(n) ==
  /\ n \in DOMAIN saves
  /\ Ready(saves[n])
  /\ NoEarlierReady(saves[n].seq)
  /\ saves' = RemoveAt(saves, n)
  /\ IF Rejected(saves[n].on)
       THEN /\ storeOut' = [op |-> "save", id |-> 0, result |-> "Error",
                            recs |-> <<>>]
            /\ UNCHANGED ipc
       ELSE /\ ipc' = Append(ipc,
                 [name |-> "saveAliases", promise |-> 0,
                  defined |-> saves[n].on.kind # "absent",
                  args |-> SaveArgs(saves[n].on)])
            /\ storeOut' = [op |-> "save", id |-> 0, result |-> "sent",
                            recs |-> <<>>]
  /\ UNCHANGED <<data, heap, promises, adds, nextId, nCalls, lastAdd>>
  /\ UNCHANGED <<mainVars, envVars, lineVars, deleted, hostVars>>

\* the main process answers a getAliases request: the promise resolves to a
\* new array, or rejects when the file cannot be read; the answer is delivered
\* to the renderer as a task of its own, after the continuations that can run
MainGetAliases ==
  /\ NoneReady
  /\ ipc # <<>>
  /\ Head(ipc).name = "getAliases"
  /\ ipc' = Tail(ipc)
  /\ IF aliasFile.exists
       THEN /\ heap' = Append(heap, aliases(aliasFile.content))
            /\ promises' = [promises EXCEPT ![Head(ipc).promise] =
                              [state |-> "resolved", ref |-> Len(heap) + 1]]
       ELSE /\ promises' = [promises EXCEPT ![Head(ipc).promise] =
                              [state |-> "rejected", ref |-> 0]]
            /\ UNCHANGED heap
  /\ UNCHANGED <<data, adds, saves, nextId, nCalls, lastAdd, storeOut>>
  /\ UNCHANGED <<mainVars, envVars, lineVars, deleted, hostVars>>

\* a write that does not truncate the file: the new text replaces the old
\* one character by character and what the old text has beyond it stays
Overlay(old, new) == new \o SubSeq(old, Len(new) + 1, Len(old))

\* variant: the file is written in place, without truncating it first
MainSaveAliasesInPlace ==
  /\ ipc # <<>>
  /\ Head(ipc).name = "saveAliases"
  /\ ipc' = Tail(ipc)
  /\ IF Head(ipc).defined
       THEN /\ aliasFile' = File(Overlay(aliasFile.content,
                                         Serialize(Head(ipc).args)))
            /\ prevFile' = aliasFile
            /\ lastSaved' = Head(ipc).args
            /\ lastOp' = "saveAliases"
            /\ nSaves' = nSaves + 1
       ELSE /\ lastOp' = "saveAliasesFailed"
            /\ UNCHANGED <<aliasFile, prevFile, lastSaved, nSaves>>
  /\ UNCHANGED <<backupFile, aliasesResp, cycles>>
  /\ UNCHANGED <<data, heap, promises, adds, saves, nextId, nCalls, lastAdd,
                 storeOut>>
  /\ UNCHANGED <<envVars, lineVars, deleted, hostVars>>

\* the main process handles a saveAliases request; aliases.map throws when
\* the argument is undefined
MainSaveAliases ==
  /\ ipc # <<>>
  /\ Head(ipc).name = "saveAliases"
  /\ ipc' = Tail(ipc)
  /\ IF Head(ipc).defined
       THEN /\ aliasFile' = File(Serialize(Head(ipc).args))
            /\ prevFile' = aliasFile
            /\ lastSaved' = Head(ipc).args
            /\ lastOp' = "saveAliases"
            /\ nSaves' = nSaves + 1
       ELSE /\ lastOp' = "saveAliasesFailed"
            /\ UNCHANGED <<aliasFile, prevFile, lastSaved, nSaves>>
  /\ UNCHANGED <<backupFile, aliasesResp, cycles>>
  /\ UNCHANGED <<data, heap, promises, adds, saves, nextId, nCalls, lastAdd,
                 storeOut>>
  /\ UNCHANGED <<envVars, lineVars, deleted, hostVars>>

(* Inputs of the store *)

LnGitExtras == <<"#", " ", "G", "i", "t", " ", "E", "x", "t", "r", "a", "s">>
LnGe == <<"a", "l", "i", "a", "s", " ", "g", "e", "=", "\"", "g", "i", "t", " ", "e", "x", "t", "\"">>

StoreTexts ==
  {JoinLines(<<LnGitExtras, LnGe, LnGit, LnGs>>), JoinLines(ExampleLines)}

NewAlias(group) ==
  [type |-> "alias", alias |-> <<"g", "p">>,
   command |-> <<"g", "i", "t", " ", "p", "u", "s", "h">>, group |-> group]

StoreValues == {NewAlias(<<"G", "i", "t">>), NewAlias(General)}

FetchKeys == {"aliases", "foo"}

InitStore ==
  /\ aliasFile \in {NoFile} \cup {File(t) : t \in StoreTexts}
  /\ backupFile = NoFile
  /\ aliasesResp = [status |-> "none", records |-> <<>>]
  /\ prevFile = NoFile
  /\ lastSaved = <<>>
  /\ lastOp = "init"
  /\ cycles = 0
  /\ nSaves = 0
  /\ EnvIdle
  /\ LineIdle
  /\ StoreIdle
  /\ HostIdle
  /\ ModalIdle

NextStore ==
  \/ (\E value \in StoreValues : StoreAddStart(value)) /\ UNCHANGED modalVars
  \/ (\E n \in DOMAIN adds : StoreAddFinish(n)) /\ UNCHANGED modalVars
  \/ (\E id \in 0..(nextId - 1) : StoreDelete(id)) /\ UNCHANGED modalVars
  \/ (\E id \in 0..(nextId - 1) : StoreGet(id)) /\ UNCHANGED modalVars
  \/ (\E key \in FetchKeys : StoreFetch(key)) /\ UNCHANGED modalVars
  \/ StoreSaveStart /\ UNCHANGED modalVars
  \/ (\E n \in DOMAIN saves : StoreSaveFinish(n)) /\ UNCHANGED modalVars
  \/ MainGetAliases /\ UNCHANGED modalVars
  \/ MainSaveAliases /\ UNCHANGED modalVars

SpecStore == InitStore /\ [][NextStore]_vars

----------------------------------------------------------------------------
(* Properties of the store *)

\* the positions of the group headings of a list whose stripped text is group
HeadingsOf(list, group) ==
  {j \in DOMAIN list :
     IsHeadingRec(list[j]) /\ StripHeading(list[j].text) = group}

\* C10: a completed Store.add("aliases", value) has inserted exactly one new
\* record, directly after the first group heading whose stripped text is
\* value.group, or at index 0 when the list has no such heading, and has left
\* the other records as they were.
C10_InsertAfterHeading ==
  lastAdd.status = "done" =>
    LET H == HeadingsOf(lastAdd.before, lastAdd.value.group)
        at == IF H = {} THEN 0 ELSE Min(H)
    IN  /\ Len(lastAdd.after) = Len(lastAdd.before) + 1
        /\ Has(lastAdd.after[at + 1], "id")
        /\ lastAdd.after[at + 1].id = lastAdd.id
        /\ RemoveAt(lastAdd.after, at + 1) = lastAdd.before

\* the position of the last line belonging to the heading at position h: the
\* line before the next group heading, or the last line of the list
GroupEnd(list, h) ==
  LET N == {j \in DOMAIN list : j > h /\ IsHeadingRec(list[j])}
  IN  IF N = {} THEN Len(list) ELSE Min(N) - 1

HeadingsContaining(list, group) ==
  {j \in DOMAIN list : IsHeadingRec(list[j]) /\ Includes(list[j].text, group)}

C12_DeleteById ==
  /\ (storeOut.op = "delete" /\ storeOut.id # 0 /\ storeOut.first) =>
       /\ storeOut.result = "true"
       /\ FindIndexById(storeOut.recs, storeOut.id) = 0
       /\ \E k \in DOMAIN storeOut.before :
            /\ Has(storeOut.before[k], "id")
            /\ storeOut.before[k].id = storeOut.id
            /\ storeOut.recs = RemoveAt(storeOut.before, k)
  /\ (storeOut.op = "delete" /\ storeOut.id # 0 /\ ~storeOut.first) =>
       /\ storeOut.result = "false"
       /\ storeOut.recs = storeOut.before
  /\ (storeOut.op = "get" /\ storeOut.result = "list") =>
       \A id \in deleted : FindIndexById(storeOut.recs, id) = 0

\* C13: at the step that completes the latest Store.fetch("aliases") (its
\* request is answered), the cache entry of "aliases" is what that fetch
\* stored and returned, and it resolves to the list parsed from the file,
\* with no record added through the store in it.
C13_FetchReplacesCache ==
  [][LET p == Len(promises)
     IN  (/\ p > 0
          /\ Len(promises') = p
          /\ promises[p].state = "pending"
          /\ promises'[p].state = "resolved") =>
           /\ data' = [kind |-> "promise", ref |-> p]
           /\ heap'[promises'[p].ref] = aliases(aliasFile.content)
           /\ \A k \in DOMAIN heap'[promises'[p].ref] :
                ~Has(heap'[promises'[p].ref][k], "id")]_vars

\* C14: a Store.fetch(key) with a key outside VALID_STORE_KEYS ends in an
\* error; it never returns normally.
C14_InvalidKeyFails ==
  (storeOut.op = "fetch" /\ storeOut.key \notin VALID_STORE_KEYS) =>
    storeOut.result = "Error"

\* C15 as stated: when a Store.save("aliases") resumes from its await it hands
\* window.API.saveAliases exactly one request, carrying the full cached list
\* in list order, and leaves the cache as it was.
C15_SaveSendsCachedList ==
  [][\A n \in DOMAIN saves :
       saves' = RemoveAt(saves, n) =>
         /\ data' = data
         /\ heap' = heap
         /\ Len(ipc') = Len(ipc) + 1
         /\ ipc'[Len(ipc')].name = "saveAliases"
         /\ ipc'[Len(ipc')].defined
         /\ IF saves[n].on.kind = "absent" \/ Rejected(saves[n].on)
              THEN FALSE
              ELSE ipc'[Len(ipc')].args = heap[Awaited(saves[n].on)]]_vars

\* C15 amended: a resuming Store.save("aliases") leaves the cache as it was
\* and hands window.API.saveAliases exactly one request: with the full list,
\* in list order, when the cache entry it awaited is or resolves to a list,
\* and with undefined when the store had no entry; when the awaited fetch was
\* rejected it sends nothing and ends in an error.
C15_SaveSendsAwaitedEntry ==
  [][\A n \in DOMAIN saves :
       saves' = RemoveAt(saves, n) =>
         /\ data' = data
         /\ heap' = heap
         /\ IF Rejected(saves[n].on)
              THEN ipc' = ipc /\ storeOut'.result = "Error"
              ELSE /\ Len(ipc') = Len(ipc) + 1
                   /\ SubSeq(ipc', 1, Len(ipc)) = ipc
                   /\ ipc'[Len(ipc')].name = "saveAliases"
                   /\ IF saves[n].on.kind = "absent"
                        THEN ~ipc'[Len(ipc')].defined
                        ELSE /\ ipc'[Len(ipc')].defined
                             /\ ipc'[Len(ipc')].args =
                                  heap[Awaited(saves[n].on)]]_vars

\* a save has handed over a fetched list that holds a record added through
\* the store next to the records of the file
C15_Witness ==
  /\ storeOut.op = "save"
  /\ storeOut.result = "sent"
  /\ ipc # <<>>
  /\ ipc[Len(ipc)].name = "saveAliases"
  /\ ipc[Len(ipc)].defined
  /\ Len(ipc[Len(ipc)].args) > 1
  /\ \E k \in DOMAIN ipc[Len(ipc)].args : Has(ipc[Len(ipc)].args[k], "id")
  /\ \E k \in DOMAIN ipc[Len(ipc)].args : IsLineRec(ipc[Len(ipc)].args[k])

\* the identifiers carried by the records of a list, in list order
IdsOf(list) ==
  LET R == SelectSeq(list, LAMBDA r : Has(r, "id"))
  IN  [k \in DOMAIN R |-> R[k].id]

\* C16: no two records of a list of the store carry the same id; the record a
\* completed Store.add inserted carries the id the add returned, an id no
\* record of the list had before; and the list a getAliases request is
\* answered with (the raw parse) has no record with an id.
C16_UniqueIds ==
  /\ [](/\ \A l \in DOMAIN heap :
             \A i, j \in DOMAIN IdsOf(heap[l]) :
               i # j => IdsOf(heap[l])[i] # IdsOf(heap[l])[j]
        /\ lastAdd.status = "done" =>
             /\ lastAdd.after[lastAdd.index + 1].id = lastAdd.id
             /\ \A k \in DOMAIN IdsOf(lastAdd.before) :
                  IdsOf(lastAdd.before)[k] # lastAdd.id)
  /\ [][\A p \in DOMAIN promises :
          (promises[p].state = "pending" /\ promises'[p].state = "resolved")
            => IdsOf(heap'[promises'[p].ref]) = <<>>]_vars

\* a fetched list into which two adds have inserted records
C16_Witness ==
  \E l \in DOMAIN heap :
    /\ Len(IdsOf(heap[l])) = 2
    /\ \E k \in DOMAIN heap[l] : ~Has(heap[l][k], "id")

----------------------------------------------------------------------------
(* The read requests of the main process and the configuration check *)

\* Application.bashrc: fs.readFileSync throws when the file is missing
bashrc(file) ==
  IF ~file.exists THEN [status |-> "error", records |-> <<>>]
  ELSE [status |-> "ok", records |-> toLines(file.content)]

\* ipcMain.handle("getBashRC", () => App.bashrc)
GetBashRC ==
  /\ bashrcResp' = bashrc(bashrcFile)
  /\ UNCHANGED <<bashrcFile, configExists, configResp, home, backupPath>>
  /\ UNCHANGED <<mainVars, envVars, lineVars, storeVars, modalVars>>

\* Application.isConfigured: its first statement calls hasConfig(), a name
\* that main.js defines nowhere, so evaluating the getter throws a
\* ReferenceError whether or not the file exists
isConfigured(exists) == [status |-> "error"]

\* ipcMain.handle("hasHulkConfig", () => App.isConfigured)
HasHulkConfig ==
  /\ configResp' = isConfigured(configExists)
  /\ UNCHANGED <<bashrcFile, bashrcResp, configExists, home, backupPath>>
  /\ UNCHANGED <<mainVars, envVars, lineVars, storeVars, modalVars>>

\* Array.prototype.join("/")
RECURSIVE JoinSlash(_)
JoinSlash(args) ==
  IF Len(args) = 0 THEN <<>>
  ELSE IF Len(args) = 1 THEN args[1]
  ELSE args[1] \o <<"/">> \o JoinSlash(Tail(args))

\* Application.path: `${this.home}/${args.join("/")}`
path(h, args) == h \o <<"/">> \o JoinSlash(args)

\* the file name in Application.aliasPath
DotAliases == <<".", "a", "l", "i", "a", "s", "e", "s">>
HulkBackup == <<".", "h", "u", "l", "k", "-", "b", "a", "c", "k", "u", "p">>

\* Application.aliasBackupFilename: the template literal holds this.aliasFile,
\* the content fs.readFileSync returns for the aliases file (it throws when
\* the file is missing), not this.aliasPath
aliasBackupFilename(h, file) ==
  IF ~file.exists THEN [status |-> "error"]
  ELSE [status |-> "ok", path |-> path(h, <<file.content \o HulkBackup>>)]

\* the getter Application.aliasBackupFilename is evaluated
AliasBackupFilename ==
  /\ backupPath' = aliasBackupFilename(home, aliasFile)
  /\ UNCHANGED <<bashrcFile, bashrcResp, configExists, configResp, home>>
  /\ UNCHANGED <<mainVars, envVars, lineVars, storeVars, modalVars>>

BashrcTexts == {<<>>, JoinLines(ExampleLines), JoinLines(<<LnSource, LnBlank>>)}

HostEnvTexts ==
  {JoinLines(EnvExampleLines), JoinLines(<<EnvVarA, EnvNoValue>>)}

InitHost ==
  /\ aliasFile \in {NoFile} \cup {File(t) : t \in StoreTexts}
  /\ backupFile = NoFile
  /\ aliasesResp = [status |-> "none", records |-> <<>>]
  /\ prevFile = NoFile
  /\ lastSaved = <<>>
  /\ lastOp = "init"
  /\ cycles = 0
  /\ nSaves = 0
  /\ envFile \in {NoFile} \cup {File(t) : t \in HostEnvTexts}
  /\ envResp = [status |-> "none", records |-> <<>>]
  /\ LineIdle
  /\ StoreIdle
  /\ bashrcFile \in {NoFile} \cup {File(t) : t \in BashrcTexts}
  /\ bashrcResp = [status |-> "none", records |-> <<>>]
  /\ configExists \in BOOLEAN
  /\ configResp = [status |-> "none"]
  /\ home \in Homes
  /\ backupPath = [status |-> "none"]
  /\ ModalIdle

NextHost ==
  \/ GetAliases
  \/ GetEnv
  \/ GetBashRC
  \/ HasHulkConfig
  \/ AliasBackupFilename

SpecHost == InitHost /\ [][NextHost]_vars

(* Properties of the read requests *)

\* C18: a getAliases, getEnv or getBashRC request on a file that does not
\* exist fails and answers with no record list, and none of the requests
\* creates or changes a file.
C18_MissingFileFails ==
  /\ [](/\ (aliasesResp.status # "none" /\ ~aliasFile.exists) =>
             (aliasesResp.status = "error" /\ aliasesResp.records = <<>>)
        /\ (envResp.status # "none" /\ ~envFile.exists) =>
             (envResp.status = "error" /\ envResp.records = <<>>)
        /\ (bashrcResp.status # "none" /\ ~bashrcFile.exists) =>
             (bashrcResp.status = "error" /\ bashrcResp.records = <<>>))
  /\ [][UNCHANGED <<aliasFile, backupFile, envFile, bashrcFile>>]_vars

\* the three requests have been made with none of the files there
C18_Witness ==
  /\ ~aliasFile.exists /\ ~envFile.exists /\ ~bashrcFile.exists
  /\ ~backupFile.exists
  /\ aliasesResp.status = "error"
  /\ envResp.status = "error"
  /\ bashrcResp.status = "error"

\* C20: a hasHulkConfig request is answered, never fails, and its answer is
\* true exactly when the file ~/.config/hulk/config.json exists.
C20_HasHulkConfigBoolean ==
  configResp.status # "none" =>
    (configResp.status = "ok" /\ configResp.value = configExists)

----------------------------------------------------------------------------
(* The add-alias modal (createAddAliasModal) *)

\* the user fills in the text fields and picks a group
UserTypes(a, c, g) ==
  /\ nSubmits < MaxSubmits
  /\ aliasInput' = a
  /\ commandInput' = c
  /\ groupSelect' = g
  /\ UNCHANGED <<flows, rendered, nSubmits>>
  /\ UNCHANGED <<mainVars, envVars, lineVars, storeVars, hostVars>>

\* the Store calls the running saveAlias calls are still going to make
Reserved ==
  Cardinality({f \in DOMAIN flows : flows[f].pc \in {"adding", "added"}})

\* the record saveAlias builds from the form
FormAlias ==
  [type |-> "alias", alias |-> aliasInput, command |-> commandInput,
   group |-> IF groupSelect = NoneOption THEN General ELSE groupSelect]

\* the submit button or the Enter key: nothing happens while a text field is
\* empty; otherwise saveAlias runs up to its first await, clearing both text
\* fields before it calls Store.add
ModalSubmit ==
  /\ aliasInput # <<>>
  /\ commandInput # <<>>
  /\ nSubmits < MaxSubmits
  /\ nCalls + Reserved + 2 <= MaxStoreCalls
  /\ StoreAddStart(FormAlias)
  /\ aliasInput' = <<>>
  /\ commandInput' = <<>>
  /\ flows' = Append(flows,
       [pc |-> "adding", seq |-> nCalls,
        typed |-> [alias |-> aliasInput, command |-> commandInput]])
  /\ nSubmits' = nSubmits + 1
  /\ UNCHANGED <<groupSelect, rendered>>

\* await Store.add("aliases", alias) returns or throws
ModalAddReturns(f) ==
  /\ flows[f].pc = "adding"
  /\ \E n \in DOMAIN adds :
       /\ adds[n].seq = flows[f].seq
       /\ StoreAddFinish(n)
       /\ flows' = [flows EXCEPT ![f].pc =
                      IF Rejected(adds[n].on) THEN "failed" ELSE "added"]
  /\ UNCHANGED <<aliasInput, commandInput, groupSelect, rendered, nSubmits>>

\* saveAlias calls Store.save("aliases")
ModalSave(f) ==
  /\ flows[f].pc = "added"
  /\ StoreSaveStart
  /\ flows' = [flows EXCEPT ![f].pc = "saving", ![f].seq = nCalls]
  /\ UNCHANGED <<aliasInput, commandInput, groupSelect, rendered, nSubmits>>

\* await Store.save("aliases") returns or throws
ModalSaveReturns(f) ==
  /\ flows[f].pc = "saving"
  /\ \E n \in DOMAIN saves :
       /\ saves[n].seq = flows[f].seq
       /\ StoreSaveFinish(n)
       /\ flows' = [flows EXCEPT ![f].pc =
                      IF Rejected(saves[n].on) THEN "failed" ELSE "saved"]
  /\ UNCHANGED <<aliasInput, commandInput, groupSelect, rendered, nSubmits>>

\* const aliases = await Store.get("aliases"); renderAliases(aliases)
ModalRender(f) ==
  /\ flows[f].pc = "saved"
  /\ Settled(data)
  /\ StoreGet(0)
  /\ IF Rejected(data) \/ data.kind = "absent"
       THEN /\ flows' = [flows EXCEPT ![f].pc = "failed"]
            /\ UNCHANGED rendered
       ELSE /\ flows' = [flows EXCEPT ![f].pc = "done"]
            /\ rendered' = [status |-> "ok", records |-> heap[Awaited(data)]]
  /\ UNCHANGED <<aliasInput, commandInput, groupSelect, nSubmits>>

ModalAliases == {<<"g", "p">>, <<"g", " ", "p">>}
ModalCommands == {<<"g", "i", "t", " ", "p", "u", "s", "h">>}
ModalGroups == {NoneOption, <<"G", "i", "t">>}

InitModal ==
  /\ aliasFile \in {NoFile, File(JoinLines(ExampleLines))}
  /\ backupFile = NoFile
  /\ aliasesResp = [status |-> "none", records |-> <<>>]
  /\ prevFile = NoFile
  /\ lastSaved = <<>>
  /\ lastOp = "init"
  /\ cycles = 0
  /\ nSaves = 0
  /\ EnvIdle
  /\ LineIdle
  /\ StoreIdle
  /\ HostIdle
  /\ ModalIdle

NextModal ==
  \/ \E a \in ModalAliases, c \in ModalCommands, g \in ModalGroups :
       UserTypes(a, c, g)
  \/ ModalSubmit
  \/ \E f \in DOMAIN flows : ModalAddReturns(f)
  \/ \E f \in DOMAIN flows : ModalSave(f)
  \/ \E f \in DOMAIN flows : ModalSaveReturns(f)
  \/ \E f \in DOMAIN flows : ModalRender(f)
  \/ (/\ nCalls + Reserved < MaxStoreCalls
      /\ StoreFetch("aliases")
      /\ UNCHANGED modalVars)
  \/ MainGetAliases /\ UNCHANGED modalVars
  \/ MainSaveAliases /\ UNCHANGED modalVars

SpecModal == InitModal /\ [][NextModal]_vars

(* Properties of the modal *)

\* C19: a text field of the add-alias modal that holds what the user typed is
\* emptied only by a step at which Store.save has returned without an error;
\* in particular the fields still hold the input when Store.add or Store.save
\* fails.
C19_FieldsKeptUntilSaved ==
  [][((aliasInput # <<>> /\ aliasInput' = <<>>)
        \/ (commandInput # <<>> /\ commandInput' = <<>>)) =>
       \E f \in DOMAIN flows :
         flows[f].pc = "saving" /\ flows'[f].pc = "saved"]_vars

\* C22: every alias record in a list handed to saveAliases (also one added
\* through the add-alias modal) has a non-empty name made of word characters,
\* '-' and '.' only, and the line saveAliases writes for it parses back to an
\* alias record with the same name.
C22_SavedAliasNamesValid ==
  lastOp = "saveAliases" =>
    \A i \in DOMAIN lastSaved :
      IsAliasRec(lastSaved[i]) =>
        /\ lastSaved[i].alias # <<>>
        /\ \A k \in DOMAIN lastSaved[i].alias :
             IsAliasNameChar(lastSaved[i].alias[k])
        /\ LET back == parseAlias(aliasToString(lastSaved[i]), i)
           IN  IsAliasRec(back) /\ back.alias = lastSaved[i].alias

\* the line matches the leading-comment pattern ^\s*#\s*
LeadingComment(line) ==
  LeadingSpaces(line) < Len(line) /\ line[LeadingSpaces(line) + 1] = "#"

\* C23: a line record of the alias file has group = true exactly when its
\* line is non-empty, is not a shebang, contains no alias definition and
\* starts, after optional whitespace, with '#'; every other line record
\* (blank, whitespace-only, a source or export statement) has group = false.
C23_HeadingNeedsComment ==
  (lastOp = "getAliases" /\ aliasesResp.status = "ok") =>
    \A i \in DOMAIN aliasesResp.records :
      LET r == aliasesResp.records[i]
          line == RawLine(aliasFile.content, i)
      IN  IsLineRec(r) =>
            (r.group = TRUE <=>
               /\ line # <<>>
               /\ ~Contains(line, ShebangUsr)
               /\ ~HasAliasDef(line)
               /\ LeadingComment(line))

\* the record type by the rules shebang, var, group, line, first match wins
ExpectedEnvType(line) ==
  IF Contains(line, ShebangEnv) THEN "shebang"
  ELSE IF ExportEq(line) # 0 THEN "var"
  ELSE IF LeadingComment(line) THEN "group"
  ELSE "line"

\* C24: parseEnvVar gives every env-file line exactly one record type, that
\* of the first matching rule in the order shebang (contains #!/usr/bin/env),
\* var (matches the export pattern), group (starts, after optional
\* whitespace, with '#', a bare '#' included), otherwise line.
C24_FirstRuleWins ==
  envVarResult.status # "none" =>
    /\ envVarResult.status = "ok"
    /\ envVarResult.rec.type = ExpectedEnvType(envLine)

\* the value is enclosed in a pair of the quote character q
Wrapped(v, q) == Len(v) >= 2 /\ v[1] = q /\ v[Len(v)] = q

\* the value without the pair of quotes that wraps it
Unwrapped(v) ==
  IF Wrapped(v, "\"") \/ Wrapped(v, "'") THEN SubSeq(v, 2, Len(v) - 1) ELSE v

\* C25: the command of a parsed alias record is the value of its line
\* without the wrapping quotes: X for the value "X", X for the value 'X', the
\* value itself when it is not quoted; the empty-quoted value "" gives the
\* empty command.
C25_CommandUnquoted ==
  (lastOp = "getAliases" /\ aliasesResp.status = "ok") =>
    \A i \in DOMAIN aliasesResp.records :
      LET r == aliasesResp.records[i]
          line == RawLine(aliasFile.content, i)
      IN  IsAliasRec(r) =>
            r.command = Unwrapped(SubSeq(line, AliasEq(line) + 1, Len(line)))

\* C26: the alias backup path is the aliases file path with ".hulk-backup"
\* appended, <home>/.aliases.hulk-backup; it is determined by the home
\* directory alone, whatever the aliases file holds.
C26_BackupPathFromHome ==
  backupPath.status # "none" =>
    /\ backupPath.status = "ok"
    /\ backupPath.path = home \o <<"/">> \o DotAliases \o HulkBackup

\* C27: saveAliases requests are handled one after the other, each write
\* replacing the whole file: after any number of requests the aliases file
\* holds exactly the text written for the list of the request handled last,
\* with no line left over from an earlier list.
C27_LastWriteWins ==
  nSaves >= 1 =>
    /\ aliasFile.exists
    /\ aliasFile.content = Serialize(lastSaved)

\* two requests with different lists have been handled, the second one
\* writing a shorter text than the first
C27_Witness ==
  /\ nSaves = 2
  /\ lastOp = "saveAliases"
  /\ prevFile.exists
  /\ Len(prevFile.content) > Len(aliasFile.content)

\* the lines of a occur in b in the same order
RECURSIVE IsSubseq(_, _)
IsSubseq(a, b) ==
  IF Len(a) = 0 THEN TRUE
  ELSE IF Len(b) = 0 THEN FALSE
  ELSE IF a[1] = b[1] THEN IsSubseq(Tail(a), Tail(b))
  ELSE IsSubseq(a, Tail(b))

\* C28: the first save made through the add-alias modal after start-up, on
\* an aliases file that already has content, loses nothing: the file it
\* writes holds every line the file had before, in the same order, and the
\* line of the new alias.
C28_ModalAddKeepsFile ==
  (lastOp = "saveAliases" /\ nSaves = 1 /\ prevFile.exists) =>
    /\ IsSubseq(toLines(prevFile.content), toLines(aliasFile.content))
    /\ \E i \in DOMAIN lastSaved :
         /\ IsAliasRec(lastSaved[i])
         /\ Has(lastSaved[i], "id")
         /\ \E j \in DOMAIN WrittenLines :
              WrittenLines[j] = aliasToString(lastSaved[i])

\* C29: once Store.fetch("aliases") has put its collection in the cache, a
\* Store.add that was suspended at its await when the fetch was called never
\* replaces it with the list from before the fetch: the cache entry of a
\* fetch is only ever replaced by that of a later fetch or by the very list
\* the fetch resolved to.
C29_AddKeepsFetched ==
  [][(data.kind = "promise" /\ data' # data) =>
       \/ data'.kind = "promise"
       \/ /\ promises[data.ref].state = "resolved"
          /\ data' = [kind |-> "array", ref |-> promises[data.ref].ref]]_vars

\* C30: a Store.get("aliases", id) or Store.delete("aliases", id) called when
\* the latest fetch has completed and no add has touched the cache since
\* raises no error: get answers with the record or undefined, delete with
\* true or false.
C30_NoErrorAfterFetch ==
  [][(/\ data.kind = "promise"
      /\ promises[data.ref].state = "resolved"
      /\ storeOut' # storeOut
      /\ storeOut'.op \in {"get", "delete"}
      /\ (storeOut'.op = "get" => storeOut'.id # 0)) =>
       /\ storeOut'.result # "TypeError"
       /\ storeOut'.op = "get" => storeOut'.result \in {"item", "undefined"}
       /\ storeOut'.op = "delete" => storeOut'.result \in {"true", "false"}]_vars

====
